---- MODULE Spec2Model ----
(***************************************************************************)
(* Model of the EventTapper bridge: the Node.js EventTapperBridge class    *)
(* (src/unnamed/part_003, lines 1-234), the Swift subprocess it supervises *)
(* (src/unnamed/part_003, lines 236-554), the two pipes between them, and  *)
(* the Electron host that owns the bridge and keeps the hotkey list        *)
(* (src/electron/preload.js).                                              *)
(*                                                                         *)
(* Text is modelled as sequences of tokens.  Every ASCII token stands for  *)
(* a run of ASCII bytes of the wire format:                                *)
(*   "{"  the opening brace up to the value of "type"                      *)
(*   a kind token ("pong", "keydown", ...) the value of the "type" field   *)
(*   a field token ("a", "1", ...) the value of one further field          *)
(*   "}"  the closing brace,   "\n" the line terminator, " " white space   *)
(* The bytes "xC3" "xA9" are the two-byte UTF-8 encoding of U+00E9, which   *)
(* the subprocess writes unescaped inside the "key" field of a key event.  *)
(***************************************************************************)
EXTENDS Integers, Sequences, FiniteSets, TLC

\* ---------------------------------------------------------------- bounds
MaxLines == 3
MaxCalls == 2
NumObservers == 2

\* ------------------------------------------------------------- alphabets
NL == "\n"
WS == " "
Digits == <<"1", "2", "3", "4", "5", "6", "7", "8", "9">>
DigitSet == {Digits[i] : i \in 1..Len(Digits)}
EventKinds == {"pong", "success", "error", "hotkey-triggered", "keydown", "keyup", "bogus"}
CommandKinds == {"ping", "register-hotkey", "unregister-hotkey",
                 "start-monitoring", "stop-monitoring"}
ErrorTexts == {"m-permission", "m-invalid", "m-notfound", "m-already",
               "m-unknown", "m-parse"}
FieldChars == DigitSet \cup {"a", "K", "U+00E9", "U+FFFD"} \cup ErrorTexts
\* 'keyup' is a channel clients subscribe to; the bridge never emits on it.
Channels == {"ready", "hotkey", "keydown", "keyup", "error", "exit"}
Observers == 1..NumObservers

NoArg == [type |-> "none", body |-> <<>>]

\* -------------------------------------------------------- pure functions
RECURSIVE Utf8Decode(_)
\* Buffer.prototype.toString(): lenient UTF-8 decoding of ONE chunk.  An
\* incomplete or stray byte of a multi-byte sequence becomes U+FFFD.
Utf8Decode(bytes) ==
  IF bytes = <<>> THEN <<>>
  ELSE IF Head(bytes) = "xC3"
       THEN IF Len(bytes) >= 2 /\ bytes[2] = "xA9"
            THEN <<"U+00E9">> \o Utf8Decode(SubSeq(bytes, 3, Len(bytes)))
            ELSE <<"U+FFFD">> \o Utf8Decode(Tail(bytes))
  ELSE IF Head(bytes) = "xA9"
       THEN <<"U+FFFD">> \o Utf8Decode(Tail(bytes))
  ELSE <<Head(bytes)>> \o Utf8Decode(Tail(bytes))

RECURSIVE SplitNL(_)
\* String.prototype.split('\n'): k newlines give k+1 pieces.
SplitNL(text) ==
  IF \A i \in 1..Len(text) : text[i] # NL THEN <<text>>
  ELSE LET p == CHOOSE i \in 1..Len(text) :
                  text[i] = NL /\ \A j \in 1..(i-1) : text[j] # NL
       IN <<SubSeq(text, 1, p - 1)>> \o SplitNL(SubSeq(text, p + 1, Len(text)))

\* String.prototype.trim() is only used for its truthiness: a line of
\* nothing but white space is skipped.
IsBlank(line) == \A i \in 1..Len(line) : line[i] = WS

NotWS(c) == c # WS

\* A line feed inside a JSON string is written as the escape \n, two
\* characters, and read back as the line feed.
EscNL == "\\n"

Escape(c) == IF c = NL THEN EscNL ELSE c

Unescape(c) == IF c = EscNL THEN NL ELSE c

\* JSON.parse(line): white space between tokens is insignificant; the text
\* must be one object; the object carries its "type" value and its fields.
JSONparse(line) ==
  LET t == SelectSeq(line, NotWS)
      n == Len(t)
  IN IF n >= 2 /\ t[1] = "{" /\ t[n] = "}"
     THEN IF n = 2
          THEN [ok |-> TRUE, msg |-> [type |-> "undefined", body |-> <<>>]]
          ELSE IF t[2] \in EventKinds \cup CommandKinds
                   /\ \A i \in 3..(n-1) : t[i] \in FieldChars \cup {EscNL}
               THEN [ok |-> TRUE,
                     msg |-> [type |-> t[2],
                              body |-> [i \in 1..(n - 3) |-> Unescape(t[i + 2])]]]
               ELSE [ok |-> FALSE, msg |-> NoArg]
     ELSE [ok |-> FALSE, msg |-> NoArg]

\* ------------------------------------------------------------------ state
VARIABLES
  constructed,  \* new EventTapperBridge() has run
  bridge,       \* this.bridge: "null" or "child" (the ChildProcess handle)
  isRunning,    \* this.isRunning
  buffer,       \* this.buffer: text after the last newline received
  listeners,    \* EventEmitter listeners of the bridge, per channel, in order
  proc,         \* the subprocess: "none", "alive", "failed" (launch error), "exited"
  exitPending,  \* 'exit' event of the child not yet dispatched: <<>> or <<[code, signal]>>
  errorPending, \* 'error' event of the child (launch failure) not yet dispatched
  stdin,        \* bytes written to the subprocess's input stream, not yet read by it
  stdoutPipe,   \* bytes written by the subprocess on stdout, not yet read
  stderrPipe,   \* the stderr chunks written by the subprocess, not yet read
  swift,        \* state of the Swift subprocess
  nextId,       \* number of ids generated by uuidv4() so far
  written,      \* history: lines written by the subprocess on stdout
  sent,         \* history: bytes ever written to the subprocess's input stream
  rxText,       \* history: all text received on stdout, as decoded chunk by chunk
  handled,      \* history: messages passed to handleMessage
  delivered,    \* history: one entry per listener invocation
  parseErrors,  \* history: lines logged by 'Failed to parse message'
  trace,        \* history: the channel of every emit call, listeners or not
  uncaught,     \* an exception left an event handler (uncaught in the host)
  reads,        \* history: stdout reads so far, 0, 1 or 2 (two or more)
  lastCall,     \* the most recent API call and how it returned
  registeredHotkeys, \* renderer: the ids in the registeredHotkeys map
  isMonitoring, \* renderer: isMonitoring
  ipc,          \* replies of ipcMain handlers the renderer has not yet resumed on
  answered,     \* history: every command the subprocess read, with its reply
  faulty        \* the observers whose listeners throw when called

vars == <<constructed, bridge, isRunning, buffer, listeners, proc, exitPending,
          errorPending, stdin, stdoutPipe, stderrPipe, swift, nextId, written,
          sent, rxText, handled, delivered, parseErrors, trace, uncaught,
          reads, lastCall, registeredHotkeys, isMonitoring, ipc, answered,
          faulty>>

hostVars == <<registeredHotkeys, isMonitoring, ipc>>
bridgeVars == <<constructed, bridge, isRunning>>
procVars == <<proc, exitPending, errorPending, swift>>
readVars == <<buffer, rxText, handled, parseErrors, reads>>

NoCall == [n |-> 0, op |-> "none", state |-> "NotStarted", threw |-> FALSE, id |-> 0]
\* monitors: the NSEvent monitors installed; events: the events seen so far;
\* printed: the chunks put on stderr so far
SwiftInit == [started |-> FALSE, hotkeys |-> {}, monitoring |-> FALSE,
              monitors |-> 0, events |-> 0, printed |-> 0]

\* --------------------------------------------------------- event emitter
\* EventEmitter.emit(ch, arg): every listener of ch is called in
\* registration order; emitting 'error' without a listener throws.
EmitThrows(ch) ==
  \/ ch = "error" /\ listeners[ch] = <<>>
  \/ \E i \in 1..Len(listeners[ch]) : listeners[ch][i] \in faulty

\* the listeners emit calls: all of them, or those up to the first that
\* throws, the exception leaving emit at once
Called(ch) ==
  LET bad == {i \in 1..Len(listeners[ch]) : listeners[ch][i] \in faulty}
  IN IF bad = {} THEN Len(listeners[ch])
     ELSE CHOOSE i \in bad : \A j \in bad : i <= j

Emit(ch, arg) == [i \in 1..Called(ch) |->
                    [ch |-> ch, to |-> listeners[ch][i], arg |-> arg]]

\* ChannelOf with 'error' falling to the default case, which only logs
ChannelOf_ErrorDropped(type) ==
  CASE type = "hotkey-triggered" -> "hotkey"
    [] type \in {"keydown", "keyup"} -> "keydown"
    [] type = "pong" -> "ready"
    [] OTHER -> "none"

\* ChannelOf with 'pong' and 'error' taking each other's case
ChannelOf_Swapped(type) ==
  CASE type = "hotkey-triggered" -> "hotkey"
    [] type \in {"keydown", "keyup"} -> "keydown"
    [] type = "pong" -> "error"
    [] type = "error" -> "ready"
    [] OTHER -> "none"

\* ChannelOf with the default case emitting 'error'
ChannelOf_UnknownAsError(type) ==
  CASE type = "hotkey-triggered" -> "hotkey"
    [] type \in {"keydown", "keyup"} -> "keydown"
    [] type = "pong" -> "ready"
    [] type = "success" -> "none"
    [] OTHER -> "error"

\* handleMessage(message): the channel a message kind is emitted on.
ChannelOf(type) ==
  CASE type = "hotkey-triggered" -> "hotkey"
    [] type \in {"keydown", "keyup"} -> "keydown"
    [] type = "error" -> "error"
    [] type = "pong" -> "ready"
    [] OTHER -> "none"

\* the argument of the emit
ArgOf(msg) ==
  CASE msg.type = "error" -> [type |-> "Error", body |-> msg.body]
    [] msg.type = "pong" -> NoArg
    [] OTHER -> msg

\* handleMessage(message): the deliveries it makes and whether it throws.
\* 'success' finds no callback (nothing ever fills this.callbacks) and an
\* unknown type is only logged.
handleMessage(msg) ==
  LET ch == ChannelOf(msg.type)
  IN IF ch = "none" THEN [threw |-> FALSE, out |-> <<>>, emits |-> <<>>]
     ELSE [threw |-> EmitThrows(ch), out |-> Emit(ch, ArgOf(msg)), emits |-> <<ch>>]

\* The body of lines.forEach: one complete line.
ProcessLine(line, st) ==
  IF IsBlank(line) THEN st
  ELSE LET p == JSONparse(line)
       IN IF ~p.ok THEN [st EXCEPT !.parseErrors = Append(@, line)]
          ELSE LET r == handleMessage(p.msg)
               IN [handled |-> Append(st.handled, p.msg),
                   delivered |-> st.delivered \o r.out,
                   trace |-> st.trace \o r.emits,
                   parseErrors |-> IF r.threw THEN Append(st.parseErrors, line)
                                   ELSE st.parseErrors]

RECURSIVE ProcessLines_Reversed(_, _)
\* ProcessLines going through the lines last to first
ProcessLines_Reversed(lines, st) ==
  IF lines = <<>> THEN st
  ELSE ProcessLine(Head(lines), ProcessLines_Reversed(Tail(lines), st))

RECURSIVE ProcessLines_AbortOnError(_, _)
\* ProcessLines without the per-line catch: the first line that fails to
\* parse ends the loop
ProcessLines_AbortOnError(lines, st) ==
  IF lines = <<>> THEN st
  ELSE IF ~IsBlank(Head(lines)) /\ ~JSONparse(Head(lines)).ok
       THEN [st EXCEPT !.parseErrors = Append(@, Head(lines))]
       ELSE ProcessLines_AbortOnError(Tail(lines), ProcessLine(Head(lines), st))

RECURSIVE ProcessLines(_, _)
ProcessLines(lines, st) ==
  IF lines = <<>> THEN st
  ELSE ProcessLines(Tail(lines), ProcessLine(Head(lines), st))

\* handleOutputFn without lines.pop(): the unterminated rest is processed
\* as a line and nothing is kept
handleOutputFn_NoPop(buf, data, st) ==
  LET text == buf \o Utf8Decode(data)
      lines == SplitNL(text)
  IN [buffer |-> <<>>,
      st |-> ProcessLines(lines, st)]

\* handleOutput(data) as a function of the buffer and the histories.
handleOutputFn(buf, data, st) ==
  LET text == buf \o Utf8Decode(data)
      lines == SplitNL(text)
      n == Len(lines)
  IN [buffer |-> lines[n],
      st |-> ProcessLines(SubSeq(lines, 1, n - 1), st)]

\* stdout 'data' handler: one read of n bytes.
StdoutData(n) ==
  /\ UNCHANGED faulty
  /\ constructed
  /\ n \in 1..Len(stdoutPipe)
  /\ \E r \in {handleOutputFn(buffer, SubSeq(stdoutPipe, 1, n),
                   [handled |-> handled, delivered |-> delivered,
                    parseErrors |-> parseErrors, trace |-> trace])} :
        /\ buffer' = r.buffer
        /\ handled' = r.st.handled
        /\ delivered' = r.st.delivered
        /\ parseErrors' = r.st.parseErrors
        /\ trace' = r.st.trace
  /\ rxText' = rxText \o Utf8Decode(SubSeq(stdoutPipe, 1, n))
  /\ stdoutPipe' = SubSeq(stdoutPipe, n + 1, Len(stdoutPipe))
  /\ reads' = IF reads < 2 THEN reads + 1 ELSE reads
  /\ UNCHANGED <<bridgeVars, procVars, listeners, stdin, stderrPipe, nextId,
                 written, sent, uncaught, lastCall, hostVars, answered>>

RECURSIVE Flatten(_)
\* every byte the subprocess has written: each line and its terminator
Flatten(lines) ==
  IF lines = <<>> THEN <<>>
  ELSE Head(lines) \o <<NL>> \o Flatten(Tail(lines))

\* ------------------------------------------------------------ supervisor
Count(seq, x) == Cardinality({i \in 1..Len(seq) : seq[i] = x})

\* The ProcessHandle state of the specification, read off the bridge's own
\* fields and the notifications it has made: no handle is NotStarted; a
\* running bridge is Starting until it has emitted 'ready'; a bridge whose
\* process exited is Exited if 'ready' came before the 'exit', else Crashed.
ReadyBeforeExit ==
  \E i, j \in 1..Len(trace) : i < j /\ trace[i] = "ready" /\ trace[j] = "exit"

SupervisorState ==
  IF ~constructed \/ bridge = "null" THEN "NotStarted"
  ELSE IF isRunning
       THEN IF Count(trace, "ready") > 0 THEN "Ready" ELSE "Starting"
       ELSE IF ReadyBeforeExit THEN "Exited" ELSE "Crashed"

\* JSONstringify copying the characters of the strings as they are
JSONstringify_Raw(msg) == <<"{", msg.type>> \o msg.body \o <<"}">>

\* JSON.stringify(message): one line of text without the terminator.
JSONstringify(msg) ==
  <<"{", msg.type>> \o [i \in 1..Len(msg.body) |-> Escape(msg.body[i])] \o <<"}">>

\* SendRejected testing the handle only
SendRejected_HandleOnly == bridge = "null"

\* send(message), the guard: !this.isRunning || !this.bridge
SendRejected == ~isRunning \/ bridge = "null"

\* SendBytes writing nothing
SendBytes_Nothing(msg) == <<>>

\* SendBytes without the line separator
SendBytes_NoTerminator(msg) == JSONstringify(msg)

\* send(message), the write: this.bridge.stdin.write(json + '\n')
SendBytes(msg) == JSONstringify(msg) \o <<NL>>

\* The input pipe after a write: a process that failed to launch or has
\* exited reads nothing, the bytes are lost.
StdinAfter(bytes) == IF proc = "alive" THEN stdin \o bytes ELSE stdin

\* print(jsonString): one line on stdout
WriteLine(line) ==
  /\ stdoutPipe' = stdoutPipe \o line \o <<NL>>
  /\ written' = Append(written, line)

Reply(type, body) == <<"{", type>> \o body \o <<"}">>

\* EventTapperBridge.start() of the subprocess: without the accessibility
\* permission it reports an error, and in both cases it goes on to listen.
\* It runs before the subprocess reads its first command, so its output is
\* in the pipe from the launch on.
SwiftStartOutput(trusted) ==
  IF trusted THEN <<>> ELSE <<Reply("error", <<"m-permission">>)>>

\* new EventTapperBridge(): the constructor and init().  spawn() returns a
\* handle in both outcomes; a launch failure is reported later by the
\* child's 'error' event and never by 'exit'.
Construct(launched, trusted) ==
  /\ UNCHANGED faulty
  /\ ~constructed
  /\ constructed' = TRUE
  /\ bridge' = "child"
  /\ isRunning' = TRUE
  /\ buffer' = <<>>
  /\ proc' = IF launched THEN "alive" ELSE "failed"
  /\ errorPending' = ~launched
  /\ LET bytes == SendBytes([type |-> "ping", body |-> <<>>])
     IN /\ sent' = sent \o bytes
        /\ stdin' = IF launched THEN stdin \o bytes ELSE stdin
  /\ IF launched
     THEN /\ swift' = [swift EXCEPT !.started = TRUE]
          /\ written' = written \o SwiftStartOutput(trusted)
          /\ stdoutPipe' = IF trusted THEN stdoutPipe
                           ELSE stdoutPipe \o SwiftStartOutput(trusted)[1] \o <<NL>>
     ELSE /\ trusted
          /\ UNCHANGED <<swift, written, stdoutPipe>>
  /\ UNCHANGED <<listeners, exitPending, stderrPipe, nextId, rxText, handled,
                 delivered, parseErrors, trace, uncaught, reads, lastCall, hostVars, answered>>

\* bridge.on(channel, listener) for every channel of a profile: the host
\* subscribes to hotkey, keydown and error in one step, a library client
\* to every channel.
HostChannels == {"hotkey", "keydown", "error"}
Profiles == {HostChannels, Channels}
Subscribed == UNION {{listeners[ch][i] : i \in 1..Len(listeners[ch])} : ch \in Channels}

Subscribe(o, chs) ==
  /\ UNCHANGED faulty
  /\ constructed
  /\ o \notin Subscribed
  /\ \A q \in Observers : q < o => q \in Subscribed
  /\ listeners' = [ch \in Channels |->
                     IF ch \in chs THEN Append(listeners[ch], o) ELSE listeners[ch]]
  /\ UNCHANGED <<bridgeVars, buffer, procVars, stdin, stdoutPipe, stderrPipe,
                 nextId, written, sent, rxText, handled, delivered, parseErrors,
                 trace, uncaught, reads, lastCall, hostVars, answered>>

\* A public operation from its entry to the return or throw of
\* send(message).
Send(op, msg, id) ==
  /\ UNCHANGED faulty
  /\ constructed
  /\ lastCall' = [n |-> lastCall.n + 1, op |-> op, state |-> SupervisorState,
                  threw |-> SendRejected, id |-> id]
  /\ IF SendRejected
     THEN UNCHANGED <<stdin, sent>>
     ELSE /\ sent' = sent \o SendBytes(msg)
          /\ stdin' = StdinAfter(SendBytes(msg))
  /\ UNCHANGED <<bridgeVars, buffer, listeners, procVars, stdoutPipe, stderrPipe,
                 written, rxText, handled, delivered, parseErrors, trace,
                 uncaught, reads>>

\* One public operation called on the bridge directly.
Call(op, msg, id) ==
  /\ lastCall.n < MaxCalls
  /\ Send(op, msg, id)

\* send({ type: 'ping' }) by a caller
Ping ==
  /\ Call("ping", [type |-> "ping", body |-> <<>>], 0)
  /\ UNCHANGED <<nextId, hostVars, answered>>

\* uuidv4 giving the previous id once more
uuidv4_Reused == IF nextId = 0 THEN nextId + 1 ELSE nextId

\* uuidv4(): an id that was not generated before, the n-th id being n.
uuidv4 == nextId + 1

\* registerHotkey(keys, modifiers): the id is generated before the send.
registerHotkey(key) ==
  /\ Call("register-hotkey",
          [type |-> "register-hotkey", body |-> <<Digits[uuidv4], key>>],
          uuidv4)
  /\ nextId' = nextId + 1
  /\ UNCHANGED <<hostVars, answered>>

\* unregisterHotkey(hotkeyId)
unregisterHotkey(id) ==
  /\ Call("unregister-hotkey",
          [type |-> "unregister-hotkey", body |-> <<Digits[id]>>], id)
  /\ UNCHANGED <<nextId, hostVars, answered>>

\* startMonitoring(options)
startMonitoring(opt) ==
  /\ Call("start-monitoring", [type |-> "start-monitoring", body |-> opt], 0)
  /\ UNCHANGED <<nextId, hostVars, answered>>

\* stopMonitoring()
stopMonitoring ==
  /\ Call("stop-monitoring", [type |-> "stop-monitoring", body |-> <<>>], 0)
  /\ UNCHANGED <<nextId, hostVars, answered>>

\* ExitHandler leaving isRunning as it is
ExitHandler_StillRunning ==
  /\ UNCHANGED faulty
  /\ exitPending # <<>>
  /\ exitPending' = <<>>
  /\ trace' = Append(trace, "exit")
  /\ delivered' = delivered \o Emit("exit", [type |-> "exit", body |-> exitPending[1]])
  /\ UNCHANGED <<constructed, bridge, isRunning, buffer, listeners, proc,
                 errorPending, swift, stdin, stdoutPipe, stderrPipe, nextId,
                 written, sent, rxText, handled, parseErrors, uncaught, reads,
                 lastCall, hostVars, answered>>

\* ExitHandler spawning the subprocess again instead of stopping
ExitHandler_Respawn ==
  /\ UNCHANGED faulty
  /\ exitPending # <<>>
  /\ exitPending' = <<>>
  /\ proc' = "alive"
  /\ trace' = Append(trace, "exit")
  /\ delivered' = delivered \o Emit("exit", [type |-> "exit", body |-> exitPending[1]])
  /\ UNCHANGED <<constructed, bridge, isRunning, buffer, listeners, errorPending,
                 swift, stdin, stdoutPipe, stderrPipe, nextId, written, sent,
                 rxText, handled, parseErrors, uncaught, reads, lastCall,
                 hostVars, answered>>

\* ExitHandler emitting 'exit' once more after the first emit
ExitHandler_Twice ==
  /\ UNCHANGED faulty
  /\ exitPending # <<>>
  /\ exitPending' = <<>>
  /\ isRunning' = FALSE
  /\ trace' = trace \o <<"exit", "exit">>
  /\ delivered' = delivered \o Emit("exit", [type |-> "exit", body |-> exitPending[1]])
                             \o Emit("exit", [type |-> "exit", body |-> exitPending[1]])
  /\ UNCHANGED <<constructed, bridge, buffer, listeners, proc, errorPending, swift,
                 stdin, stdoutPipe, stderrPipe, nextId, written, sent, rxText,
                 handled, parseErrors, uncaught, reads, lastCall, hostVars, answered>>

\* child 'exit' handler
ExitHandler ==
  /\ UNCHANGED faulty
  /\ exitPending # <<>>
  /\ exitPending' = <<>>
  /\ isRunning' = FALSE
  /\ trace' = Append(trace, "exit")
  /\ delivered' = delivered \o Emit("exit", [type |-> "exit", body |-> exitPending[1]])
  /\ UNCHANGED <<constructed, bridge, buffer, listeners, proc, errorPending, swift,
                 stdin, stdoutPipe, stderrPipe, nextId, written, sent, rxText,
                 handled, parseErrors, uncaught, reads, lastCall, hostVars, answered>>

\* child 'error' handler (the process could not be launched)
ProcessErrorHandler ==
  /\ UNCHANGED faulty
  /\ errorPending
  /\ errorPending' = FALSE
  /\ trace' = Append(trace, "error")
  /\ uncaught' = (uncaught \/ EmitThrows("error"))
  /\ delivered' = delivered \o Emit("error", [type |-> "Error", body |-> <<"spawn">>])
  /\ UNCHANGED <<bridgeVars, buffer, listeners, proc, exitPending, swift, stdin,
                 stdoutPipe, stderrPipe, nextId, written, sent, rxText, handled,
                 parseErrors, reads, lastCall, hostVars, answered>>

\* StderrData passing the chunk to handleOutput as if it were stdout
StderrData_Decoded ==
  /\ UNCHANGED faulty
  /\ stderrPipe # <<>>
  /\ stderrPipe' = Tail(stderrPipe)
  /\ \E r \in {handleOutputFn(buffer, Head(stderrPipe),
                   [handled |-> handled, delivered |-> delivered,
                    parseErrors |-> parseErrors, trace |-> trace])} :
        /\ buffer' = r.buffer
        /\ handled' = r.st.handled
        /\ delivered' = r.st.delivered
        /\ parseErrors' = r.st.parseErrors
        /\ trace' = r.st.trace
  /\ UNCHANGED <<bridgeVars, listeners, procVars, stdin, stdoutPipe, nextId,
                 written, sent, rxText, uncaught, reads, lastCall, hostVars,
                 answered>>

\* stderr 'data' handler: the chunk is logged and emitted as an Error
\* whose message is the chunk's text.
StderrData ==
  /\ UNCHANGED faulty
  /\ stderrPipe # <<>>
  /\ stderrPipe' = Tail(stderrPipe)
  /\ trace' = Append(trace, "error")
  /\ uncaught' = (uncaught \/ EmitThrows("error"))
  /\ delivered' = delivered \o Emit("error", [type |-> "Error",
                                              body |-> Utf8Decode(Head(stderrPipe))])
  /\ UNCHANGED <<bridgeVars, buffer, listeners, procVars, stdin, stdoutPipe,
                 nextId, written, sent, rxText, handled, parseErrors, reads,
                 lastCall, hostVars, answered>>

\* destroy telling the subprocess to stop monitoring before it kills it
destroy_SendsStop ==
  /\ UNCHANGED faulty
  /\ constructed
  /\ IF bridge # "null"
     THEN /\ bridge' = "null"
          /\ isRunning' = FALSE
          /\ sent' = sent \o SendBytes([type |-> "stop-monitoring", body |-> <<>>])
          /\ IF proc = "alive"
             THEN /\ proc' = "exited"
                  /\ exitPending' = <<<<"null", "SIGTERM">>>>
             ELSE UNCHANGED <<proc, exitPending>>
     ELSE UNCHANGED <<bridge, isRunning, proc, exitPending, sent>>
  /\ listeners' = [ch \in Channels |-> <<>>]
  /\ UNCHANGED <<constructed, buffer, errorPending, swift, stdin, stdoutPipe,
                 stderrPipe, nextId, written, rxText, handled, delivered,
                 parseErrors, trace, uncaught, reads, lastCall, hostVars, answered>>

\* destroy without removeAllListeners()
destroy_KeepsListeners ==
  /\ UNCHANGED faulty
  /\ constructed
  /\ IF bridge # "null"
     THEN /\ bridge' = "null"
          /\ isRunning' = FALSE
          /\ IF proc = "alive"
             THEN /\ proc' = "exited"
                  /\ exitPending' = <<<<"null", "SIGTERM">>>>
             ELSE UNCHANGED <<proc, exitPending>>
     ELSE UNCHANGED <<bridge, isRunning, proc, exitPending>>
  /\ UNCHANGED <<constructed, buffer, errorPending, swift, stdin, stdoutPipe,
                 stderrPipe, nextId, written, sent, rxText, handled, delivered,
                 parseErrors, trace, uncaught, reads, lastCall, hostVars, answered,
                 listeners>>

\* destroy(): kill the child, drop the handle, remove every listener.
destroy ==
  /\ UNCHANGED faulty
  /\ constructed
  /\ IF bridge # "null"
     THEN /\ bridge' = "null"
          /\ isRunning' = FALSE
          /\ IF proc = "alive"
             THEN /\ proc' = "exited"
                  /\ exitPending' = <<<<"null", "SIGTERM">>>>
             ELSE UNCHANGED <<proc, exitPending>>
     ELSE UNCHANGED <<bridge, isRunning, proc, exitPending>>
  /\ listeners' = [ch \in Channels |-> <<>>]
  /\ UNCHANGED <<constructed, buffer, errorPending, swift, stdin, stdoutPipe,
                 stderrPipe, nextId, written, sent, rxText, handled, delivered,
                 parseErrors, trace, uncaught, reads, lastCall, hostVars, answered>>

\* ------------------------------------------------------------ subprocess
\* handleUnregisterHotkey taking the id in when it is not found
handleUnregisterHotkey_NotFoundAdds(m, sw) ==
  IF Len(m.body) < 1
  THEN [sw |-> sw, reply |-> Reply("error", <<"m-invalid">>)]
  ELSE IF m.body[1] \in sw.hotkeys
  THEN [sw |-> [sw EXCEPT !.hotkeys = @ \ {m.body[1]}],
        reply |-> Reply("success", <<m.body[1]>>)]
  ELSE [sw |-> [sw EXCEPT !.hotkeys = @ \cup {m.body[1]}],
        reply |-> Reply("error", <<"m-notfound">>)]

\* handleUnregisterHotkey answering success without removing the entry
handleUnregisterHotkey_KeepsEntry(m, sw) ==
  IF Len(m.body) < 1
  THEN [sw |-> sw, reply |-> Reply("error", <<"m-invalid">>)]
  ELSE IF m.body[1] \in sw.hotkeys
  THEN [sw |-> sw,
        reply |-> Reply("success", <<m.body[1]>>)]
  ELSE [sw |-> sw, reply |-> Reply("error", <<"m-notfound">>)]

\* handleUnregisterHotkey(message)
handleUnregisterHotkey(m, sw) ==
  IF Len(m.body) < 1
  THEN [sw |-> sw, reply |-> Reply("error", <<"m-invalid">>)]
  ELSE IF m.body[1] \in sw.hotkeys
  THEN [sw |-> [sw EXCEPT !.hotkeys = @ \ {m.body[1]}],
        reply |-> Reply("success", <<m.body[1]>>)]
  ELSE [sw |-> sw, reply |-> Reply("error", <<"m-notfound">>)]

\* handleStartMonitoring(message): a monitor for key events is added and
\* its handle is not kept; the options are not read.
handleStartMonitoring(m, sw) ==
  IF sw.monitoring
  THEN [sw |-> sw, reply |-> Reply("error", <<"m-already">>)]
  ELSE [sw |-> [sw EXCEPT !.monitoring = TRUE, !.monitors = @ + 1],
        reply |-> Reply("success", <<>>)]

\* handleStopMonitoring answering with an error when monitoring is off
handleStopMonitoring_ErrorWhenOff(sw) ==
  IF sw.monitoring
  THEN [sw |-> [sw EXCEPT !.monitoring = FALSE], reply |-> Reply("success", <<>>)]
  ELSE [sw |-> sw, reply |-> Reply("error", <<"m-already">>)]

\* handleStopMonitoring(): the flag is cleared; no monitor is removed.
handleStopMonitoring(sw) ==
  [sw |-> [sw EXCEPT !.monitoring = FALSE], reply |-> Reply("success", <<>>)]

\* handleRegisterHotkey answering success whatever the fields
handleRegisterHotkey_AcceptsAll(m, sw) ==
  IF Len(m.body) < 2
  THEN [sw |-> sw, reply |-> Reply("success", <<>>)]
  ELSE [sw |-> [sw EXCEPT !.hotkeys = @ \cup {m.body[1]}],
        reply |-> Reply("success", <<m.body[1]>>)]

\* handleRegisterHotkey(message): the guard wants id, keys and modifiers;
\* the tapper is stored under the id and the success carries the id.
handleRegisterHotkey(m, sw) ==
  IF Len(m.body) < 2
  THEN [sw |-> sw, reply |-> Reply("error", <<"m-invalid">>)]
  ELSE [sw |-> [sw EXCEPT !.hotkeys = @ \cup {m.body[1]}],
        reply |-> Reply("success", <<m.body[1]>>)]

\* handleCommand(line): the subprocess's new state and its one reply.
SwiftCommand(line, sw) ==
  LET p == JSONparse(line)
      m == p.msg
  IN IF ~p.ok \/ m.type = "undefined"
     THEN [sw |-> sw, reply |-> Reply("error", <<"m-parse">>)]
     ELSE CASE m.type = "register-hotkey" -> handleRegisterHotkey(m, sw)
            [] m.type = "unregister-hotkey" -> handleUnregisterHotkey(m, sw)
            [] m.type = "start-monitoring" -> handleStartMonitoring(m, sw)
            [] m.type = "stop-monitoring" -> handleStopMonitoring(sw)
            [] m.type = "ping" -> [sw |-> sw, reply |-> Reply("pong", <<>>)]
            [] OTHER -> [sw |-> sw, reply |-> Reply("error", <<"m-unknown">>)]

\* SwiftHandleCommand printing its reply twice
SwiftHandleCommand_Twice ==
  /\ UNCHANGED faulty
  /\ proc = "alive"
  /\ swift.started
  /\ \E k \in 1..Len(stdin) :
       /\ stdin[k] = NL
       /\ \A j \in 1..(k-1) : stdin[j] # NL
       /\ LET r == SwiftCommand(SubSeq(stdin, 1, k - 1), swift)
          IN /\ swift' = r.sw
             /\ stdoutPipe' = stdoutPipe \o r.reply \o <<NL>> \o r.reply \o <<NL>>
             /\ written' = written \o <<r.reply, r.reply>>
             /\ answered' = Append(answered, [cmd |-> SubSeq(stdin, 1, k - 1),
                                              reply |-> r.reply])
       /\ stdin' = SubSeq(stdin, k + 1, Len(stdin))
  /\ UNCHANGED <<bridgeVars, buffer, listeners, proc, exitPending, errorPending,
                 stderrPipe, nextId, sent, rxText, handled, delivered,
                 parseErrors, trace, uncaught, reads, lastCall, hostVars>>

\* listenForCommands(): readLine() takes one complete line from stdin.
SwiftHandleCommand ==
  /\ UNCHANGED faulty
  /\ proc = "alive"
  /\ swift.started
  /\ \E k \in 1..Len(stdin) :
       /\ stdin[k] = NL
       /\ \A j \in 1..(k-1) : stdin[j] # NL
       /\ LET r == SwiftCommand(SubSeq(stdin, 1, k - 1), swift)
          IN /\ swift' = r.sw
             /\ WriteLine(r.reply)
             /\ answered' = Append(answered, [cmd |-> SubSeq(stdin, 1, k - 1),
                                              reply |-> r.reply])
       /\ stdin' = SubSeq(stdin, k + 1, Len(stdin))
  /\ UNCHANGED <<bridgeVars, buffer, listeners, proc, exitPending, errorPending,
                 stderrPipe, nextId, sent, rxText, handled, delivered,
                 parseErrors, trace, uncaught, reads, lastCall, hostVars>>

\* The subprocess exits (crash, kill from outside, end of input).
ProcessExit(code) ==
  /\ UNCHANGED faulty
  /\ proc = "alive"
  /\ proc' = "exited"
  /\ exitPending' = <<<<code, "null">>>>
  /\ UNCHANGED <<bridgeVars, buffer, listeners, errorPending, swift, stdin,
                 stdoutPipe, stderrPipe, nextId, written, sent, rxText, handled,
                 delivered, parseErrors, trace, uncaught, reads, lastCall, hostVars, answered>>

\* A test double in place of the subprocess writes any line of a small set.
FakeLines(ts) ==
  { <<"{", "keydown", "xC3", "xA9", ts, "}">>,
    <<"{", "hotkey-triggered", ts, "}">>,
    <<"{", "error", "}">>,
    <<"{", "bogus", "}">>,
    <<"{", "keydown", "a">>,
    <<>> }

FakeWriteLine ==
  /\ UNCHANGED faulty
  /\ proc = "alive"
  /\ Len(written) < MaxLines
  /\ \E line \in FakeLines(Digits[Len(written) + 1]) : WriteLine(line)
  /\ UNCHANGED <<bridgeVars, buffer, listeners, procVars, stdin, stderrPipe,
                 nextId, sent, rxText, handled, delivered, parseErrors, trace,
                 uncaught, reads, lastCall, hostVars, answered>>

\* Anything the subprocess or the runtime under it prints on stderr: a
\* text that reads like a protocol line, or the beginning of one.
MaxStderr == 1

StderrTexts == { <<"{", "hotkey-triggered", "1", "}", NL>>, <<"{", "keydown">> }

ProcessStderr ==
  /\ UNCHANGED faulty
  /\ proc = "alive"
  /\ swift.printed < MaxStderr
  /\ swift' = [swift EXCEPT !.printed = @ + 1]
  /\ \E text \in StderrTexts : stderrPipe' = Append(stderrPipe, text)
  /\ UNCHANGED <<bridgeVars, buffer, listeners, proc, exitPending, errorPending,
                 stdin, stdoutPipe,
                 nextId, written, sent, rxText, handled, delivered, parseErrors,
                 trace, uncaught, reads, lastCall, hostVars, answered>>

\* --------------------------------------------------------- specifications
Init ==
  /\ constructed = FALSE
  /\ bridge = "null"
  /\ isRunning = FALSE
  /\ buffer = <<>>
  /\ listeners = [ch \in Channels |-> <<>>]
  /\ proc = "none"
  /\ exitPending = <<>>
  /\ errorPending = FALSE
  /\ stdin = <<>>
  /\ stdoutPipe = <<>>
  /\ stderrPipe = <<>>
  /\ swift = SwiftInit
  /\ nextId = 0
  /\ written = <<>>
  /\ sent = <<>>
  /\ rxText = <<>>
  /\ handled = <<>>
  /\ delivered = <<>>
  /\ parseErrors = <<>>
  /\ trace = <<>>
  /\ uncaught = FALSE
  /\ reads = 0
  /\ lastCall = NoCall
  /\ registeredHotkeys = {}
  /\ isMonitoring = FALSE
  /\ ipc = <<>>
  /\ answered = <<>>
  /\ faulty = {}

\* A read returns what is in the pipe or only its first bytes.
PartialRead == 2

Next ==
  \/ \E launched, trusted \in BOOLEAN : Construct(launched, trusted)
  \/ \E o \in Observers, chs \in Profiles : Subscribe(o, chs)
  \/ Ping
  \/ \E key \in {"K"} : registerHotkey(key)
  \/ \E id \in 1..nextId : unregisterHotkey(id)
  \/ \E opt \in {<<"a">>} : startMonitoring(opt)
  \/ stopMonitoring
  \/ SwiftHandleCommand
  \/ \E code \in {"0", "1"} : ProcessExit(code)
  \/ \E n \in {PartialRead, Len(stdoutPipe)} : StdoutData(n)
  \/ ExitHandler
  \/ ProcessErrorHandler
  \/ ProcessStderr
  \/ StderrData
  \/ destroy

Spec == Init /\ [][Next]_vars

\* The event loop dispatches every pending event; the subprocess and the
\* callers are under no obligation.
Fairness ==
  /\ WF_vars(\E launched, trusted \in BOOLEAN : Construct(launched, trusted))
  /\ WF_vars(\E n \in {PartialRead, Len(stdoutPipe)} : StdoutData(n))
  /\ WF_vars(ExitHandler)
  /\ WF_vars(ProcessErrorHandler)
  /\ WF_vars(StderrData)

FairSpec == Spec /\ Fairness

\* The callers' side: the bridge, its process and the public operations,
\* without observers.
NextSend ==
  \/ \E launched, trusted \in BOOLEAN : Construct(launched, trusted)
  \/ Ping
  \/ \E key \in {"K"} : registerHotkey(key)
  \/ \E id \in 1..nextId : unregisterHotkey(id)
  \/ \E opt \in {<<"a">>} : startMonitoring(opt)
  \/ stopMonitoring
  \/ SwiftHandleCommand
  \/ \E code \in {"0", "1"} : ProcessExit(code)
  \/ \E n \in {PartialRead, Len(stdoutPipe)} : StdoutData(n)
  \/ ExitHandler
  \/ ProcessErrorHandler
  \/ destroy

SpecSend == Init /\ [][NextSend]_vars

\* The start-up side: the bridge, its process and the observers, with no
\* command besides the probe.
NextStart ==
  \/ \E launched, trusted \in BOOLEAN : Construct(launched, trusted)
  \/ \E o \in Observers, chs \in Profiles : Subscribe(o, chs)
  \/ SwiftHandleCommand
  \/ \E code \in {"0", "1"} : ProcessExit(code)
  \/ \E n \in {PartialRead, Len(stdoutPipe)} : StdoutData(n)
  \/ ExitHandler
  \/ ProcessErrorHandler
  \/ destroy

SpecStart == Init /\ [][NextStart]_vars

FairStart == SpecStart /\ Fairness

\* The line assembler under a test double: the bridge is constructed, the
\* process is alive, the observers are subscribed, and the double writes
\* arbitrary lines that arrive in arbitrary chunks.
ObserverSetups ==
  { [ch \in Channels |-> <<>>],
    [ch \in Channels |-> IF ch \in HostChannels THEN <<1>> ELSE <<>>],
    [ch \in Channels |-> <<1, 2>>] }

InitCodec ==
  /\ constructed = TRUE
  /\ bridge = "child"
  /\ isRunning = TRUE
  /\ buffer = <<>>
  /\ listeners \in ObserverSetups
  /\ proc = "alive"
  /\ exitPending = <<>>
  /\ errorPending = FALSE
  /\ stdin = SendBytes([type |-> "ping", body |-> <<>>])
  /\ stdoutPipe = <<>>
  /\ stderrPipe = <<>>
  /\ swift = SwiftInit
  /\ nextId = 0
  /\ written = <<>>
  /\ sent = SendBytes([type |-> "ping", body |-> <<>>])
  /\ rxText = <<>>
  /\ handled = <<>>
  /\ delivered = <<>>
  /\ parseErrors = <<>>
  /\ trace = <<>>
  /\ uncaught = FALSE
  /\ reads = 0
  /\ lastCall = NoCall
  /\ registeredHotkeys = {}
  /\ isMonitoring = FALSE
  /\ ipc = <<>>
  /\ answered = <<>>
  /\ faulty = {}

NextCodec ==
  \/ FakeWriteLine
  \/ \E n \in 1..Len(stdoutPipe) : StdoutData(n)

SpecCodec == InitCodec /\ [][NextCodec]_vars

\* Two subscribers on every channel, any of them throwing from its
\* listener, and a test double writing the lines.
InitDispatch ==
  /\ constructed = TRUE
  /\ bridge = "child"
  /\ isRunning = TRUE
  /\ buffer = <<>>
  /\ listeners = [ch \in Channels |-> [i \in 1..NumObservers |-> i]]
  /\ faulty \in SUBSET Observers
  /\ proc = "alive"
  /\ exitPending = <<>>
  /\ errorPending = FALSE
  /\ stdin = SendBytes([type |-> "ping", body |-> <<>>])
  /\ stdoutPipe = <<>>
  /\ stderrPipe = <<>>
  /\ swift = SwiftInit
  /\ nextId = 0
  /\ written = <<>>
  /\ sent = SendBytes([type |-> "ping", body |-> <<>>])
  /\ rxText = <<>>
  /\ handled = <<>>
  /\ delivered = <<>>
  /\ parseErrors = <<>>
  /\ trace = <<>>
  /\ uncaught = FALSE
  /\ reads = 0
  /\ lastCall = NoCall
  /\ registeredHotkeys = {}
  /\ isMonitoring = FALSE
  /\ ipc = <<>>
  /\ answered = <<>>

NextDispatch ==
  \/ FakeWriteLine
  \/ StdoutData(Len(stdoutPipe))

SpecDispatch == InitDispatch /\ [][NextDispatch]_vars


\* ------------------------------------------------------------------ host
\* The Electron host: the main process owns the bridge and answers the
\* renderer's ipcRenderer.invoke calls; the renderer keeps the hotkey list
\* (registeredHotkeys) and the monitoring flag (isMonitoring) and updates
\* them when the awaited call has returned.
MaxOps == 3

\* ipcMain.handle(channel, handler): the handler runs the bridge method;
\* its return value or its exception travels back to the renderer.
Invoke(op, msg, id) ==
  /\ lastCall.n < MaxOps
  /\ Send(op, msg, id)
  /\ ipc' = Append(ipc, [op |-> op, id |-> id, threw |-> SendRejected])
  /\ UNCHANGED <<registeredHotkeys, isMonitoring, answered>>

\* renderer registerHotkey(), up to its await: keys and modifiers are
\* always arrays here.
rendererRegisterHotkey(key) ==
  /\ Invoke("register-hotkey",
            [type |-> "register-hotkey", body |-> <<Digits[uuidv4], key>>],
            uuidv4)
  /\ nextId' = nextId + 1

\* renderer unregisterHotkey(id), up to its await: the Remove button of an
\* entry of the list.
rendererUnregisterHotkey(id) ==
  /\ Digits[id] \in registeredHotkeys
  /\ Invoke("unregister-hotkey",
            [type |-> "unregister-hotkey", body |-> <<Digits[id]>>], id)
  /\ UNCHANGED nextId

\* renderer startMonitoring(), up to its await: the button is disabled
\* once monitoring is on.
rendererStartMonitoring ==
  /\ ~isMonitoring
  /\ Invoke("start-monitoring", [type |-> "start-monitoring", body |-> <<"a">>], 0)
  /\ UNCHANGED nextId

\* renderer stopMonitoring(), up to its await
rendererStopMonitoring ==
  /\ Invoke("stop-monitoring", [type |-> "stop-monitoring", body |-> <<>>], 0)
  /\ UNCHANGED nextId

\* HotkeysAfter keeping the entry of an unregistered id
HotkeysAfter_KeepOnUnregister(r) ==
  CASE r.op = "register-hotkey" -> registeredHotkeys \cup {Digits[r.id]}
    [] OTHER -> registeredHotkeys

\* The hotkey list after an awaited call has returned normally.
HotkeysAfter(r) ==
  CASE r.op = "register-hotkey" -> registeredHotkeys \cup {Digits[r.id]}
    [] r.op = "unregister-hotkey" -> registeredHotkeys \ {Digits[r.id]}
    [] OTHER -> registeredHotkeys

\* The monitoring flag after an awaited call has returned normally.
MonitoringAfter(r) ==
  CASE r.op = "start-monitoring" -> TRUE
    [] r.op = "stop-monitoring" -> FALSE
    [] OTHER -> isMonitoring

\* RendererResume running the statements after the await in the catch
\* block as well
RendererResume_IgnoresRejection ==
  /\ UNCHANGED faulty
  /\ ipc # <<>>
  /\ ipc' = Tail(ipc)
  /\ registeredHotkeys' = HotkeysAfter(Head(ipc))
  /\ isMonitoring' = MonitoringAfter(Head(ipc))
  /\ UNCHANGED <<bridgeVars, buffer, listeners, procVars, stdin, stdoutPipe,
                 stderrPipe, nextId, written, sent, rxText, handled, delivered,
                 parseErrors, trace, uncaught, reads, lastCall, answered>>

\* The renderer resumes after its await: the statements after it, or the
\* catch block, which only writes to the event log.
RendererResume ==
  /\ UNCHANGED faulty
  /\ ipc # <<>>
  /\ ipc' = Tail(ipc)
  /\ registeredHotkeys' = IF Head(ipc).threw THEN registeredHotkeys
                          ELSE HotkeysAfter(Head(ipc))
  /\ isMonitoring' = IF Head(ipc).threw THEN isMonitoring
                     ELSE MonitoringAfter(Head(ipc))
  /\ UNCHANGED <<bridgeVars, buffer, listeners, procVars, stdin, stdoutPipe,
                 stderrPipe, nextId, written, sent, rxText, handled, delivered,
                 parseErrors, trace, uncaught, reads, lastCall, answered>>

\* The host once app.whenReady() has run: the bridge is constructed with a
\* launched subprocess, and the host listens on hotkey, keydown and error.
InitHost ==
  /\ constructed = TRUE
  /\ bridge = "child"
  /\ isRunning = TRUE
  /\ buffer = <<>>
  /\ listeners = [ch \in Channels |-> IF ch \in HostChannels THEN <<1>> ELSE <<>>]
  /\ proc = "alive"
  /\ exitPending = <<>>
  /\ errorPending = FALSE
  /\ stdin = SendBytes([type |-> "ping", body |-> <<>>])
  /\ \E trusted \in BOOLEAN :
       /\ written = SwiftStartOutput(trusted)
       /\ stdoutPipe = Flatten(SwiftStartOutput(trusted))
  /\ stderrPipe = <<>>
  /\ swift = [SwiftInit EXCEPT !.started = TRUE]
  /\ nextId = 0
  /\ sent = SendBytes([type |-> "ping", body |-> <<>>])
  /\ rxText = <<>>
  /\ handled = <<>>
  /\ delivered = <<>>
  /\ parseErrors = <<>>
  /\ trace = <<>>
  /\ uncaught = FALSE
  /\ reads = 0
  /\ lastCall = NoCall
  /\ registeredHotkeys = {}
  /\ isMonitoring = FALSE
  /\ ipc = <<>>
  /\ answered = <<>>
  /\ faulty = {}

NextRegistry ==
  \/ \E key \in {"K"} : rendererRegisterHotkey(key)
  \/ \E id \in 1..nextId : rendererUnregisterHotkey(id)
  \/ rendererStartMonitoring
  \/ rendererStopMonitoring
  \/ RendererResume
  \/ SwiftHandleCommand
  \/ \E code \in {"0", "1"} : ProcessExit(code)
  \/ StdoutData(Len(stdoutPipe))
  \/ ExitHandler

SpecRegistry == InitHost /\ [][NextRegistry]_vars

\* A test double in place of the subprocess reads one command and answers
\* it as the protocol allows: a ping with a pong, any other command with
\* a success or with an error, which carries a message and no id.
FakeReply(line, ok) ==
  IF JSONparse(line).msg.type = "ping" THEN Reply("pong", <<>>)
  ELSE IF ok THEN Reply("success", <<>>)
  ELSE Reply("error", <<"m-invalid">>)

FakeHandleCommand(ok) ==
  /\ UNCHANGED faulty
  /\ proc = "alive"
  /\ \E k \in 1..Len(stdin) :
       /\ stdin[k] = NL
       /\ \A j \in 1..(k-1) : stdin[j] # NL
       /\ WriteLine(FakeReply(SubSeq(stdin, 1, k - 1), ok))
       /\ answered' = Append(answered, [cmd |-> SubSeq(stdin, 1, k - 1),
                                        reply |-> FakeReply(SubSeq(stdin, 1, k - 1), ok)])
       /\ stdin' = SubSeq(stdin, k + 1, Len(stdin))
  /\ UNCHANGED <<bridgeVars, buffer, listeners, procVars, stderrPipe, nextId,
                 sent, rxText, handled, delivered, parseErrors, trace, uncaught,
                 reads, lastCall, hostVars>>

\* The host with the double for a subprocess.
NextDouble ==
  \/ \E key \in {"K"} : rendererRegisterHotkey(key)
  \/ \E id \in 1..nextId : rendererUnregisterHotkey(id)
  \/ RendererResume
  \/ \E ok \in BOOLEAN : FakeHandleCommand(ok)
  \/ StdoutData(Len(stdoutPipe))

SpecDouble == InitHost /\ [][NextDouble]_vars

\* ---------------------------------------------------------------- events
MaxEvents == 2

\* handleKeyEvent(event): the event as one line; the last field is the
\* timestamp.
KeyLine(kind, ts) == <<"{", kind, "a", ts, "}">>

\* A key goes down or up in the subprocess: every monitor installed by
\* handleStartMonitoring calls handleKeyEvent.
KeyEvent(kind) ==
  /\ UNCHANGED faulty
  /\ proc = "alive"
  /\ swift.monitors > 0
  /\ swift.events < MaxEvents
  /\ swift' = [swift EXCEPT !.events = @ + 1]
  /\ LET lines == [i \in 1..swift.monitors |-> KeyLine(kind, Digits[swift.events + 1])]
     IN /\ stdoutPipe' = stdoutPipe \o Flatten(lines)
        /\ written' = written \o lines
  /\ UNCHANGED <<bridgeVars, buffer, listeners, proc, exitPending, errorPending,
                 stdin, stderrPipe, nextId, sent, rxText, handled, delivered,
                 parseErrors, trace, uncaught, reads, lastCall, hostVars, answered>>

\* handleHotkeyTriggered(id, event): the event as one line, the id first
\* and the timestamp last.
HotkeyLine(id, ts) == <<"{", "hotkey-triggered", id, ts, "}">>

\* The event tapper of a hotkey the subprocess holds fires.
HotkeyTriggered(id) ==
  /\ UNCHANGED faulty
  /\ proc = "alive"
  /\ id \in swift.hotkeys
  /\ swift.events < MaxEvents
  /\ swift' = [swift EXCEPT !.events = @ + 1]
  /\ WriteLine(HotkeyLine(id, Digits[swift.events + 1]))
  /\ UNCHANGED <<bridgeVars, buffer, listeners, proc, exitPending, errorPending,
                 stdin, stderrPipe, nextId, sent, rxText, handled, delivered,
                 parseErrors, trace, uncaught, reads, lastCall, hostVars, answered>>

\* The host, the subprocess and the event tappers of its hotkeys.
NextHotkeys ==
  \/ \E key \in {"K"} : rendererRegisterHotkey(key)
  \/ \E id \in 1..nextId : rendererUnregisterHotkey(id)
  \/ RendererResume
  \/ SwiftHandleCommand
  \/ \E id \in DigitSet : HotkeyTriggered(id)
  \/ StdoutData(Len(stdoutPipe))

SpecHotkeys == InitHost /\ [][NextHotkeys]_vars

\* The host, the subprocess and the keyboard.
NextKeys ==
  \/ rendererStartMonitoring
  \/ rendererStopMonitoring
  \/ RendererResume
  \/ SwiftHandleCommand
  \/ \E kind \in {"keydown", "keyup"} : KeyEvent(kind)
  \/ StdoutData(Len(stdoutPipe))

SpecKeys == InitHost /\ [][NextKeys]_vars

\* ================================================================ claims
NoHistory == [handled |-> <<>>, delivered |-> <<>>, parseErrors |-> <<>>, trace |-> <<>>]

\* the terminated lines of a text, and the text after its last terminator
CompleteLines(text) == LET l == SplitNL(text) IN SubSeq(l, 1, Len(l) - 1)

AfterLastNL(text) ==
  LET nls == {i \in 1..Len(text) : text[i] = NL}
      last == IF nls = {} THEN 0 ELSE CHOOSE i \in nls : \A j \in nls : j <= i
  IN SubSeq(text, last + 1, Len(text))

IsWellFormed(line) == ~IsBlank(line) /\ JSONparse(line).ok

RECURSIVE MsgsOf(_)
\* the messages of the well-formed lines, each line parsed on its own
MsgsOf(lines) ==
  IF lines = <<>> THEN <<>>
  ELSE (IF IsWellFormed(Head(lines)) THEN <<JSONparse(Head(lines)).msg>> ELSE <<>>)
       \o MsgsOf(Tail(lines))

RECURSIVE DeliveriesOf(_)
\* the listener invocations a sequence of messages gives rise to
DeliveriesOf(msgs) ==
  IF msgs = <<>> THEN <<>>
  ELSE (IF ChannelOf(Head(msgs).type) \in Channels
        THEN Emit(ChannelOf(Head(msgs).type), ArgOf(Head(msgs))) ELSE <<>>)
       \o DeliveriesOf(Tail(msgs))

\* C3: line assembly is independent of chunking: once everything written
\* has been read, the messages handed to handleMessage are those of one
\* read of the whole byte sequence.
C3_ChunkingIndependent ==
  stdoutPipe = <<>> =>
    handled = handleOutputFn(<<>>, Flatten(written), NoHistory).st.handled

\* C4: nothing is decoded before its terminator arrives: the buffer is the
\* text after the last newline received and holds no newline, and no more
\* lines were decoded or rejected than terminators were received.
C4_NoEarlyDecode ==
  /\ \A i \in 1..Len(buffer) : buffer[i] # NL
  /\ buffer = AfterLastNL(rxText)
  /\ Len(handled) <= Count(rxText, NL)
  /\ Len(parseErrors) <= Count(rxText, NL)

C4_Witness ==
  /\ buffer # <<>>
  /\ Len(handled) >= 1
  /\ reads = 2

\* the observable identity of a delivery and of a written line: the
\* channel and the timestamp field
StampOfDelivery(d) ==
  [ch |-> d.ch,
   ts |-> IF d.ch = "error" THEN "-" ELSE d.arg.body[Len(d.arg.body)]]

LineIsMessage(line) == Len(line) >= 3 /\ line[1] = "{" /\ line[Len(line)] = "}"

StampOfLine(line) ==
  [ch |-> ChannelOf(line[2]),
   ts |-> IF line[2] = "error" THEN "-" ELSE line[Len(line) - 1]]

RECURSIVE ExpectedStamps(_, _)
ExpectedStamps(lines, o) ==
  IF lines = <<>> THEN <<>>
  ELSE LET l == Head(lines)
       IN (IF LineIsMessage(l) /\ ChannelOf(l[2]) \in Channels
              /\ \E i \in 1..Len(listeners[ChannelOf(l[2])]) :
                   listeners[ChannelOf(l[2])][i] = o
           THEN <<StampOfLine(l)>> ELSE <<>>)
          \o ExpectedStamps(Tail(lines), o)

RECURSIVE DeliveredStamps(_, _)
DeliveredStamps(ds, o) ==
  IF ds = <<>> THEN <<>>
  ELSE (IF Head(ds).to = o THEN <<StampOfDelivery(Head(ds))>> ELSE <<>>)
       \o DeliveredStamps(Tail(ds), o)

\* C5: once everything written has been read, every observer has received
\* exactly the messages of its channels, once each, in the order written.
C5_FifoDelivery ==
  stdoutPipe = <<>> =>
    \A o \in Observers : DeliveredStamps(delivered, o) = ExpectedStamps(written, o)

C5_Witness ==
  /\ stdoutPipe = <<>>
  /\ reads = 1
  /\ Len(written) >= 2
  /\ \E o \in Observers : Len(DeliveredStamps(delivered, o)) >= 2

\* C6: a malformed line is skipped and nothing else: the messages handled
\* are those of the well-formed terminated lines received, each parsed on
\* its own, and the deliveries are those of these messages.
C6_SkipMalformed ==
  /\ handled = MsgsOf(CompleteLines(rxText))
  /\ delivered = DeliveriesOf(handled)

C6_Witness ==
  /\ stdoutPipe = <<>>
  /\ Len(written) >= 2
  /\ written[1] = <<"{", "keydown", "a">>
  /\ IsWellFormed(Utf8Decode(written[2]))
  /\ Len(parseErrors) >= 1
  /\ Len(handled) >= 1
  /\ Len(delivered) >= 1

\* C7: every line that fails to parse is reported to the 'error' observers:
\* each of them has received one notification per rejected line besides
\* one per error message.
C7_MalformedReported ==
  \A i \in 1..Len(listeners["error"]) :
    Cardinality({k \in 1..Len(delivered) :
                   delivered[k].ch = "error" /\ delivered[k].to = listeners["error"][i]})
      = Len(parseErrors)
        + Cardinality({k \in 1..Len(handled) : handled[k].type = "error"})

\* ------------------------------------------------------- start and send
IsCall == lastCall'.n = lastCall.n + 1

NotRunningStates == {"NotStarted", "Crashed", "Exited"}

\* C1: a command sent while the supervisor is NotStarted, Crashed or Exited
\* throws in the call, and no byte of it is written to the input stream.
C1_NotRunningRejects ==
  [][IsCall /\ SupervisorState \in NotRunningStates
       => lastCall'.threw /\ sent' = sent /\ stdin' = stdin]_vars

C1_Witness ==
  /\ lastCall.n > 0
  /\ lastCall.state = "Exited"
  /\ lastCall.threw
  /\ Len(sent) = Len(SendBytes([type |-> "ping", body |-> <<>>]))

\* C2 as stated, for a subprocess that was launched and is alive: a command
\* sent in any state but Ready, that is in Starting between the spawn and
\* the first pong, throws and is not written.
C2_NotReadyRejects ==
  [][IsCall /\ SupervisorState # "Ready" /\ proc = "alive"
       => lastCall'.threw /\ sent' = sent /\ stdin' = stdin]_vars

\* the bytes a successful call adds: one whole line of the command's kind
IsCommandLine(bytes, kind) ==
  /\ Len(bytes) >= 4
  /\ bytes[1] = "{"
  /\ bytes[2] = kind
  /\ bytes[Len(bytes) - 1] = "}"
  /\ bytes[Len(bytes)] = NL
  /\ \A i \in 1..(Len(bytes) - 1) : bytes[i] # NL

\* C2 as amended: a command sent while the bridge is not running throws and
\* is not written; a command sent while it is running, Starting included,
\* is written to the input stream as one whole line within the call; in no
\* case is anything kept back for later.
C2_RunningWritesAtOnce ==
  [][IsCall =>
       /\ lastCall'.threw <=> SupervisorState \in NotRunningStates
       /\ lastCall'.threw => sent' = sent /\ stdin' = stdin
       /\ ~lastCall'.threw =>
            /\ Len(sent') > Len(sent)
            /\ SubSeq(sent', 1, Len(sent)) = sent
            /\ IsCommandLine(SubSeq(sent', Len(sent) + 1, Len(sent')), lastCall'.op)
            /\ proc = "alive" => stdin' = stdin \o SubSeq(sent', Len(sent) + 1, Len(sent'))
    ]_vars

C2_Witness ==
  /\ lastCall.n > 0
  /\ lastCall.state = "Starting"
  /\ ~lastCall.threw
  /\ proc = "alive"
  /\ Len(sent) > Len(SendBytes([type |-> "ping", body |-> <<>>]))

PingLine == <<"{", "ping", "}">>
PongLine == <<"{", "pong", "}">>

FirstLineOf(bytes) == SplitNL(bytes)[1]

PongsReceived ==
  Cardinality({i \in 1..Len(CompleteLines(rxText)) :
                 SelectSeq(CompleteLines(rxText)[i], NotWS) = PongLine})

ReadyDeliveries == Cardinality({k \in 1..Len(delivered) : delivered[k].ch = "ready"})

\* C8: the first thing written to the subprocess is the ping; 'ready' is
\* emitted once per pong received and never before; and the pong that
\* arrives in Starting makes the supervisor Ready and reaches every
\* 'ready' observer.
C8_ProbeThenReady ==
  /\ [](constructed => FirstLineOf(sent) = PingLine /\ Len(sent) > Len(PingLine))
  /\ [](Count(trace, "ready") = PongsReceived)
  /\ [][SupervisorState = "Starting" /\ PongsReceived' > PongsReceived
          => /\ SupervisorState' = "Ready"
             /\ ReadyDeliveries' = ReadyDeliveries
                  + (PongsReceived' - PongsReceived) * Len(listeners["ready"])]_vars

C8_Witness ==
  /\ SupervisorState = "Ready"
  /\ ReadyDeliveries >= 1
  /\ PongsReceived = 1

ExitStep == exitPending # <<>> /\ exitPending' = <<>>

NoPongWritten == \A i \in 1..Len(written) : written[i] # PongLine

\* C10: the probe is bounded: if the subprocess stays alive and never
\* answers the ping, the supervisor eventually becomes Crashed.
C10_BoundedProbe ==
  <>[](proc = "alive" /\ NoPongWritten) => <>(SupervisorState = "Crashed")

\* ------------------------------------------------- registry and session
\* C11: when the subprocess exits while the supervisor is Ready, the hotkey
\* list is empty and the monitoring flag is off once the exit handler has
\* made its 'exit' notification.
C11_ExitClearsRegistry ==
  [][ExitStep /\ SupervisorState = "Ready"
       => registeredHotkeys' = {} /\ ~isMonitoring']_vars

\* the 'exit' notifications one emit makes: one per 'exit' listener, each
\* carrying the pending code and signal
ExitNotifications ==
  [i \in 1..Len(listeners["exit"]) |->
     [ch |-> "exit", to |-> listeners["exit"][i],
      arg |-> [type |-> "exit", body |-> exitPending[1]]]]

\* C12: every subprocess exit is notified exactly once: the exit handler
\* makes one 'exit' emit carrying the code and signal of the exit as they
\* came from the child, the bridge is no longer running when the listeners
\* are called, no other step emits 'exit', and the emits made and pending
\* are as many as the subprocess's exits.
C12_ExitOnceVerbatim ==
  /\ [][ExitStep => /\ ~isRunning'
                    /\ trace' = Append(trace, "exit")
                    /\ delivered' = delivered \o ExitNotifications]_vars
  /\ [][~ExitStep => Count(trace', "exit") = Count(trace, "exit")]_vars
  /\ [](Count(trace, "exit") + Len(exitPending) = (IF proc = "exited" THEN 1 ELSE 0))

C12_Witness ==
  /\ SupervisorState = "Exited"
  /\ Count(trace, "exit") = 1
  /\ \E k \in 1..Len(delivered) :
       /\ delivered[k].ch = "exit"
       /\ delivered[k].arg.body = <<"0", "null">>

\* C13: nothing restarts the subprocess: a subprocess that has exited or
\* failed to launch stays so, and a bridge that has stopped running never
\* runs again (no step takes it back to Starting or Ready), whatever the
\* caller sends afterwards.
C13_NoAutomaticRestart ==
  /\ [][(proc = "exited" \/ proc = "failed") => proc' = proc]_vars
  /\ [][constructed /\ ~isRunning
          => ~isRunning' /\ SupervisorState' \notin {"Starting", "Ready"}]_vars

C13_Witness ==
  /\ proc = "exited"
  /\ exitPending = <<>>
  /\ lastCall.n = MaxCalls
  /\ lastCall.state = "Crashed"
  /\ lastCall.threw
  /\ SupervisorState = "Crashed"

\* the ids of the commands of one kind the bridge has written
SentIds(kind) ==
  LET lines == CompleteLines(sent)
  IN {lines[i][3] : i \in {j \in 1..Len(lines) : lines[j][2] = kind}}

\* registerHotkey returns its id exactly when it has written the command,
\* and unregisterHotkey returns normally exactly when it has written its.
ReturnedIds == SentIds("register-hotkey")
UnregisteredIds == SentIds("unregister-hotkey")

\* C14: the hotkey list is the set of ids returned by registerHotkey and
\* not unregistered since, as soon as the callers have resumed; and no
\* reply of the subprocess, whenever it is written or read, changes it.
C14_RegistryIsLocalView ==
  /\ [](registeredHotkeys \subseteq ReturnedIds)
  /\ [](ipc = <<>> => registeredHotkeys = ReturnedIds \ UnregisteredIds)
  /\ [][ipc' = ipc => registeredHotkeys' = registeredHotkeys]_vars

C14_Witness ==
  /\ ipc = <<>>
  /\ registeredHotkeys = {"2"}
  /\ UnregisteredIds = {"1"}
  /\ answered = <<>>

IsRegistration ==
  IsCall /\ lastCall'.op = "register-hotkey" /\ ~lastCall'.threw

\* C15: registerHotkey makes the id itself and returns it within the call:
\* the command it writes carries the id, the id is handed back before the
\* subprocess has read the command or written anything, and it differs
\* from every id registered on either side and from every id returned
\* before, the combination being the same each time.
C15_FreshIdWithoutWaiting ==
  [][IsRegistration =>
       /\ Digits[lastCall'.id] \notin registeredHotkeys \cup swift.hotkeys \cup ReturnedIds
       /\ sent' = sent \o <<"{", "register-hotkey", Digits[lastCall'.id], "K", "}", NL>>
       /\ ipc' = Append(ipc, [op |-> "register-hotkey", id |-> lastCall'.id, threw |-> FALSE])
       /\ UNCHANGED <<answered, written, stdoutPipe, handled, swift>>
    ]_vars

C15_Witness ==
  /\ registeredHotkeys = {"1", "2"}
  /\ ReturnedIds = {"1", "2"}
  /\ answered = <<>>
  /\ stdoutPipe = <<>>

\* the ids of the registrations the subprocess has answered with an error
RejectedIds ==
  {answered[i].cmd[3] :
     i \in {j \in 1..Len(answered) : /\ answered[j].cmd[2] = "register-hotkey"
                                     /\ answered[j].reply[2] = "error"}}

\* C16: a registration the subprocess has rejected is taken out of the
\* hotkey list: once the rejection has been read and the callers have
\* resumed, no rejected id is in the list.
C16_RejectionReconciled ==
  (stdoutPipe = <<>> /\ buffer = <<>> /\ ipc = <<>>)
    => registeredHotkeys \cap RejectedIds = {}

ErrorsIn(msgs) == Cardinality({i \in 1..Len(msgs) : msgs[i].type = "error"})

ErrorDeliveries(ds, o) ==
  Cardinality({k \in 1..Len(ds) : /\ ds[k].ch = "error" /\ ds[k].to = o
                                  /\ ds[k].arg.type = "Error"})

\* C17: an error message, which has no id field, is a generic error: each
\* one read is emitted once on the 'error' channel and reaches every
\* 'error' listener as an Error, and reading it removes no entry of the
\* hotkey list and changes nothing a caller awaits.
C17_GenericErrorOnly ==
  [][ErrorsIn(handled') > ErrorsIn(handled) =>
       /\ Count(trace', "error") - Count(trace, "error")
            = ErrorsIn(handled') - ErrorsIn(handled)
       /\ \A i \in 1..Len(listeners["error"]) :
            ErrorDeliveries(delivered', listeners["error"][i])
              - ErrorDeliveries(delivered, listeners["error"][i])
              = ErrorsIn(handled') - ErrorsIn(handled)
       /\ UNCHANGED <<registeredHotkeys, isMonitoring, ipc>>
    ]_vars

C17_Witness ==
  /\ "1" \in registeredHotkeys
  /\ ipc = <<[op |-> "unregister-hotkey", id |-> 1, threw |-> FALSE]>>
  /\ stdoutPipe = <<>>
  /\ buffer = <<>>
  /\ Len(answered) = 3
  /\ answered[3].cmd = <<"{", "unregister-hotkey", "1", "}">>
  /\ answered[3].reply = Reply("error", <<"m-invalid">>)
  /\ delivered[Len(delivered)] =
       [ch |-> "error", to |-> 1, arg |-> [type |-> "Error", body |-> <<"m-invalid">>]]

\* C18: the subprocess's report that it has no such id is not escalated:
\* no 'error' listener is ever called with the not-found error.
C18_NotFoundOnlyLogged ==
  \A k \in 1..Len(delivered) :
    ~(delivered[k].ch = "error" /\ delivered[k].arg.body = <<"m-notfound">>)

\* the subprocess reads an unregister-hotkey command for an id it does
\* not hold
ReadsUnknownUnregister ==
  /\ Len(answered') = Len(answered) + 1
  /\ answered'[Len(answered')].cmd[2] = "unregister-hotkey"
  /\ answered'[Len(answered')].cmd[3] \notin swift.hotkeys

NotFoundsIn(msgs) ==
  Cardinality({i \in 1..Len(msgs) : msgs[i] = [type |-> "error", body |-> <<"m-notfound">>]})

\* C19: unregistering an unknown id changes no state: the call changes
\* neither side; the subprocess, reading the command, keeps its hotkeys
\* and its monitoring flag and answers with the not-found error; and the
\* bridge, reading that answer, stays as it is, as do the hotkey list and
\* the monitoring flag of the host.
C19_UnknownUnregisterNoEffect ==
  /\ [][IsCall /\ lastCall'.op = "unregister-hotkey"
          => UNCHANGED <<bridgeVars, procVars, registeredHotkeys, isMonitoring>>]_vars
  /\ [][ReadsUnknownUnregister
          => /\ answered'[Len(answered')].reply = Reply("error", <<"m-notfound">>)
             /\ UNCHANGED <<bridgeVars, procVars, registeredHotkeys, isMonitoring>>]_vars
  /\ [][NotFoundsIn(handled') > NotFoundsIn(handled)
          => UNCHANGED <<bridgeVars, procVars, registeredHotkeys, isMonitoring>>]_vars

C19_Witness ==
  /\ NotFoundsIn(handled) = 1
  /\ Len(answered) = 4
  /\ answered[4].cmd = <<"{", "unregister-hotkey", "1", "}">>
  /\ swift.hotkeys = {}
  /\ registeredHotkeys = {}
  /\ SupervisorState = "Ready"
  /\ proc = "alive"
  /\ ipc = <<>>

\* C20: a start-monitoring command is accepted whether or not monitoring
\* is already on: every one the subprocess has read was answered with a
\* success, never with an error.
C20_RestartAccepted ==
  \A i \in 1..Len(answered) :
    answered[i].cmd[2] = "start-monitoring" => answered[i].reply[2] = "success"

\* ------------------------------------------------------ monitoring session
\* the subprocess reads a command of one kind
ReadsCommand(kind) ==
  /\ Len(answered') = Len(answered) + 1
  /\ answered'[Len(answered')].cmd[2] = kind

SuccessesIn(msgs) == Cardinality({i \in 1..Len(msgs) : msgs[i].type = "success"})

\* C21: stopMonitoring while monitoring is off is a no-op: on a running
\* bridge the call returns normally and changes no state and notifies
\* nobody; the renderer's flag stays off when the call has returned; the
\* subprocess, reading the command with its own flag off, keeps its state
\* and answers with a success; and reading a success raises no error.
C21_StopWhileInactiveNoOp ==
  /\ [][IsCall /\ lastCall'.op = "stop-monitoring" /\ ~isMonitoring /\ isRunning
          => /\ ~lastCall'.threw
             /\ UNCHANGED <<bridgeVars, procVars, registeredHotkeys, isMonitoring,
                            delivered, trace>>]_vars
  /\ [][ipc # <<>> /\ ipc' = Tail(ipc) /\ Head(ipc).op = "stop-monitoring" /\ ~isMonitoring
          => ~isMonitoring' /\ UNCHANGED <<bridgeVars, procVars, registeredHotkeys,
                                          delivered, trace>>]_vars
  /\ [][ReadsCommand("stop-monitoring") /\ ~swift.monitoring
          => /\ answered'[Len(answered')].reply = Reply("success", <<>>)
             /\ UNCHANGED <<bridgeVars, procVars, hostVars, delivered, trace>>]_vars
  /\ [][SuccessesIn(handled') > SuccessesIn(handled) /\ ErrorsIn(handled') = ErrorsIn(handled)
          => Count(trace', "error") = Count(trace, "error")
             /\ UNCHANGED <<bridge, isRunning, procVars, hostVars>>]_vars

C21_Witness ==
  /\ \E i \in 1..Len(answered) :
       /\ answered[i].cmd[2] = "stop-monitoring"
       /\ answered[i].reply = Reply("success", <<>>)
  /\ SentIds("start-monitoring") = {}
  /\ \A i \in 1..Len(answered) : answered[i].cmd[2] # "start-monitoring"
  /\ stdoutPipe = <<>>
  /\ ipc = <<>>
  /\ SuccessesIn(handled) = 1
  /\ Count(trace, "error") = 0
  /\ ~isMonitoring
  /\ ~swift.monitoring
  /\ SupervisorState = "Ready"

\* the renderer resumes after a call of one kind that returned normally
Resumes(kind) ==
  ipc # <<>> /\ ipc' = Tail(ipc) /\ Head(ipc).op = kind /\ ~Head(ipc).threw

\* C22: the monitoring flag is on once startMonitoring has returned and
\* off once stopMonitoring has returned, whatever the subprocess has
\* answered by then, and it is off once the subprocess's exit has been
\* handled.
C22_FlagFollowsCallsAndExit ==
  /\ [][Resumes("start-monitoring") => isMonitoring']_vars
  /\ [][Resumes("stop-monitoring") => ~isMonitoring']_vars
  /\ [][ExitStep => ~isMonitoring']_vars

\* ------------------------------------------------------------------ events
\* the deliveries of key events to one observer, by timestamp
KeyDeliveries(o, ts) ==
  {k \in 1..Len(delivered) :
     /\ delivered[k].to = o
     /\ delivered[k].arg.type \in {"keydown", "keyup"}
     /\ delivered[k].arg.body[Len(delivered[k].arg.body)] = ts}

\* C23: key events come only while monitoring is on: the subprocess
\* writes a key event only with its monitoring flag on, and no observer
\* receives the same key event twice.
C23_KeysOnlyWhileMonitoring ==
  /\ [][swift'.events > swift.events => swift.monitoring]_vars
  /\ [](\A o \in Observers, ts \in DigitSet : Cardinality(KeyDeliveries(o, ts)) <= 1)

\* C24: a 'hotkey' event is delivered only for a registered hotkey: no
\* listener is called with a hotkey event whose id unregisterHotkey has
\* already been called with.
C24_NoHotkeyAfterUnregister ==
  [][\A k \in (Len(delivered) + 1)..Len(delivered') :
       delivered'[k].ch = "hotkey" => delivered'[k].arg.body[1] \notin UnregisteredIds]_vars

\* the channel of the subscribers of a message kind
OwnChannel(type) ==
  CASE type = "hotkey-triggered" -> "hotkey"
    [] type = "keydown" -> "keydown"
    [] type = "keyup" -> "keyup"
    [] OTHER -> "none"

\* C25: every event is dispatched to the subscribers of its own kind: a
\* listener called with a keydown, keyup or hotkey-triggered message is a
\* listener of the key-press, keyup or hotkey channel respectively.
C25_DispatchByOwnKind ==
  \A k \in 1..Len(delivered) :
    delivered[k].arg.type \in {"hotkey-triggered", "keydown", "keyup"}
      => delivered[k].ch = OwnChannel(delivered[k].arg.type)

\* the hotkey and key-press messages handled so far, by kind
HandledOfKind(type) ==
  {k \in 1..Len(handled) : handled[k].type = type}

\* the deliveries observer o has received on channel ch
DeliveredTo(o, ch) ==
  {k \in 1..Len(delivered) : delivered[k].ch = ch /\ delivered[k].to = o}

\* C26: a subscriber that fails keeps no other subscriber of the same
\* message from being notified: every subscriber of the hotkey and of the
\* key-press channel has received every message of that kind handled so far.
C26_DispatchDecoupled ==
  \A type \in {"hotkey-triggered", "keydown"} :
    \A i \in 1..Len(listeners[OwnChannel(type)]) :
      Cardinality(DeliveredTo(listeners[OwnChannel(type)][i], OwnChannel(type)))
        = Cardinality(HandledOfKind(type))

\* the closed set of message kinds, and those of them that are emitted
KnownKinds == {"pong", "success", "error", "hotkey-triggered", "keydown", "keyup"}

EmittedKinds == KnownKinds \ {"success"}

\* the read handles at least one message and only messages of unknown kind
ReadsOnlyUnknown ==
  /\ Len(handled') > Len(handled)
  /\ \A k \in (Len(handled) + 1)..Len(handled') : handled'[k].type \notin KnownKinds

\* C27: a message of a kind outside the closed set is dropped: a read that
\* handles only such messages notifies nobody and leaves the bridge's
\* fields, its listeners and its parse failures as they were; there are
\* exactly as many emits as handled messages of the emitted kinds, and no
\* listener is ever called with a message of unknown kind.
C27_UnknownKindDropped ==
  /\ [][ReadsOnlyUnknown =>
          /\ UNCHANGED <<delivered, trace, uncaught, bridgeVars, listeners,
                         registeredHotkeys, isMonitoring, stdin, sent>>
          /\ \A k \in 1..Len(parseErrors') :
                JSONparse(parseErrors'[k]).ok =>
                  JSONparse(parseErrors'[k]).msg.type \in KnownKinds]_vars
  /\ [](Len(trace) = Cardinality({k \in 1..Len(handled) : handled[k].type \in EmittedKinds}))
  /\ [](\A k \in 1..Len(delivered) :
          delivered[k].arg = NoArg \/ delivered[k].arg.type \in KnownKinds \cup {"Error"})

C27_Witness ==
  /\ \E k \in 1..Len(handled) : handled[k].type = "bogus"
  /\ handled[Len(handled)].type = "bogus"
  /\ \A ch \in Channels : Len(listeners[ch]) = NumObservers
  /\ Len(handled) = 2
  /\ Len(delivered) = NumObservers

\* the line is one whole command
IsCommand(line) ==
  /\ JSONparse(line).ok
  /\ JSONparse(line).msg.type \in CommandKinds

\* C28: the commands go to the input stream one after the other, each as
\* one complete line: every write appends exactly one whole command line to
\* what was written before, the stream never ends inside a command, and the
\* subprocess reads the commands one by one as they were written.
C28_CommandsNeverInterleave ==
  /\ [](AfterLastNL(sent) = <<>>)
  /\ [](LET lines == CompleteLines(sent)
        IN /\ \A i \in 1..Len(lines) : IsCommand(lines[i])
           /\ Len(answered) <= Len(lines)
           /\ \A i \in 1..Len(answered) : answered[i].cmd = lines[i])
  /\ [][sent' # sent =>
          /\ SubSeq(sent', 1, Len(sent)) = sent
          /\ Len(CompleteLines(sent')) = Len(CompleteLines(sent)) + 1]_vars

C28_Witness ==
  /\ lastCall.n = 2
  /\ Len(CompleteLines(stdin)) = 3
  /\ CompleteLines(stdin) = CompleteLines(sent)
  /\ CompleteLines(stdin)[2][2] = "register-hotkey"
  /\ CompleteLines(stdin)[3][2] = "start-monitoring"

\* Callers passing keys and options that contain line feeds.
Payloads == {"K", NL}
Options == {<<"a">>, <<NL>>, <<"a", NL, "a">>}

NextEncode ==
  \/ Ping
  \/ \E key \in Payloads : registerHotkey(key)
  \/ \E id \in 1..nextId : unregisterHotkey(id)
  \/ \E opt \in Options : startMonitoring(opt)
  \/ stopMonitoring
  \/ SwiftHandleCommand

SpecEncode == InitHost /\ [][NextEncode]_vars

\* the bytes a step appends to the input stream
Appended == SubSeq(sent', Len(sent) + 1, Len(sent'))

\* C29: every encoded command is one self-contained line: what a call
\* writes holds exactly one line separator, its last byte, whatever the
\* command and its payload; there are as many lines as commands, and the
\* subprocess decodes from each line a command of the kind that was sent.
C29_OneLinePerCommand ==
  /\ [][lastCall' # lastCall =>
          /\ SubSeq(sent', 1, Len(sent)) = sent
          /\ Len(Appended) >= 3
          /\ Appended[Len(Appended)] = NL
          /\ \A i \in 1..(Len(Appended) - 1) : Appended[i] # NL
          /\ Appended[2] = lastCall'.op]_vars
  /\ [](Len(CompleteLines(sent)) = lastCall.n + 1)
  /\ [](\A i \in 1..Len(answered) : IsCommand(answered[i].cmd))

C29_Witness ==
  /\ Len(answered) = 3
  /\ answered[2].cmd[2] = "register-hotkey"
  /\ JSONparse(answered[2].cmd).msg.body = <<"1", NL>>
  /\ answered[3].cmd[2] = "start-monitoring"
  /\ JSONparse(answered[3].cmd).msg.body = <<"a", NL, "a">>
  /\ answered[3].reply = Reply("success", <<>>)

\* The host at work while the subprocess prints on stderr.
NextStderr ==
  \/ \E key \in {"K"} : rendererRegisterHotkey(key)
  \/ rendererStartMonitoring
  \/ RendererResume
  \/ SwiftHandleCommand
  \/ \E n \in {PartialRead, Len(stdoutPipe)} : StdoutData(n)
  \/ ProcessStderr
  \/ StderrData

SpecStderr == InitHost /\ [][NextStderr]_vars

\* the bridge takes a chunk from stderr
ReadsStderr == Len(stderrPipe') < Len(stderrPipe)

\* C30: stderr output is surfaced only as an error notification: reading a
\* chunk leaves the line assembler and everything decoded from stdout, the
\* bridge's fields, the subprocess and its registrations, the host's hotkey
\* list and monitoring flag as they were, and the one emit it makes is on
\* the error channel, carrying the chunk's text; no hotkey or key
\* notification ever comes from it.
C30_StderrOnlyDiagnostic ==
  /\ [][ReadsStderr =>
          /\ UNCHANGED <<buffer, rxText, handled, parseErrors, reads, bridgeVars,
                         procVars, listeners, registeredHotkeys, isMonitoring,
                         ipc, stdin, sent, stdoutPipe, written>>
          /\ trace' = Append(trace, "error")
          /\ \A k \in (Len(delivered) + 1)..Len(delivered') :
                /\ delivered'[k].ch = "error"
                /\ delivered'[k].arg = [type |-> "Error", body |-> stderrPipe[1]]]_vars
  /\ [](\A k \in 1..Len(delivered) : delivered[k].ch = "error")

C30_Witness ==
  /\ stderrPipe = <<>>
  /\ buffer # <<>>
  /\ registeredHotkeys = {"1"}
  /\ isMonitoring
  /\ swift.monitoring
  /\ \E k \in 1..Len(delivered) :
       delivered[k].arg = [type |-> "Error",
                           body |-> <<"{", "hotkey-triggered", "1", "}", NL>>]

\* destroy() drops the handle; nothing else does
DropsHandle == bridge = "child" /\ bridge' = "null"

\* C31: teardown sends no shutdown command: the step that drops the handle
\* writes nothing to the input stream, ends the subprocess if it is alive,
\* and leaves the bridge not running; a bridge without a handle is never
\* running and its subprocess never alive, and the registrations the
\* subprocess held are gone with it without an unregister command.
C31_TeardownSendsNothing ==
  /\ [][DropsHandle =>
          /\ UNCHANGED <<sent, stdin, lastCall, swift, answered>>
          /\ ~isRunning'
          /\ proc' # "alive"
          /\ proc = "alive" => exitPending' = <<<<"null", "SIGTERM">>>>
          /\ listeners' = [ch \in Channels |-> <<>>]]_vars
  /\ [](constructed /\ bridge = "null" => ~isRunning /\ proc # "alive")

C31_Witness ==
  /\ bridge = "null"
  /\ swift.hotkeys = {"1"}
  /\ UnregisteredIds = {}
  /\ exitPending # <<>>

\* the bridge has read the subprocess's report of the missing permission
PermissionReported ==
  \E k \in 1..Len(handled) :
    handled[k].type = "error" /\ handled[k].body = <<"m-permission">>

\* C32: a capability error is fatal to the subprocess instance: once the
\* bridge has read the report of the missing permission it is not running,
\* so that it accepts no command, and it has not notified 'ready' and does
\* not notify it later.
C32_CapabilityErrorFatal ==
  PermissionReported => ~isRunning /\ Count(trace, "ready") = 0

\* A client of the subprocess writing any line to its standard input.
MaxCommands == 3

CommandLines ==
  { <<"{", "register-hotkey", "1", "K", "}">>,
    <<"{", "register-hotkey", "1", "}">>,
    <<"{", "register-hotkey", "}">>,
    <<"{", "unregister-hotkey", "1", "}">>,
    <<"{", "start-monitoring", "a", "}">>,
    <<"{", "stop-monitoring", "}">>,
    <<"{", "ping", "}">>,
    <<"{", "bogus", "}">>,
    <<"{", "ping">>,
    <<>> }

WriteCommandLine ==
  /\ proc = "alive"
  /\ Len(CompleteLines(sent)) <= MaxCommands
  /\ \E line \in CommandLines :
       /\ stdin' = stdin \o line \o <<NL>>
       /\ sent' = sent \o line \o <<NL>>
  /\ UNCHANGED <<bridgeVars, buffer, listeners, procVars, stdoutPipe, stderrPipe,
                 nextId, written, rxText, handled, delivered, parseErrors,
                 trace, uncaught, reads, lastCall, hostVars, answered, faulty>>

NextSwift ==
  \/ WriteCommandLine
  \/ SwiftHandleCommand

SpecSwift == InitHost /\ [][NextSwift]_vars

\* the subprocess takes a line; the line and its reply
TakesLine == Len(answered') = Len(answered) + 1
LastCmd == answered'[Len(answered')].cmd
LastReply == answered'[Len(answered')].reply

\* C33: a register-hotkey command with id and keys puts the id in the
\* subprocess's registered set and is answered by one success line that
\* carries the id; one with fields missing is answered by one error line
\* and the set stays as it was.
C33_RegisterStoresOrRejects ==
  [][TakesLine /\ Len(LastCmd) >= 3 /\ LastCmd[1] = "{" /\ LastCmd[2] = "register-hotkey"
       /\ LastCmd[Len(LastCmd)] = "}"
     => IF Len(LastCmd) >= 5
        THEN /\ swift'.hotkeys = swift.hotkeys \cup {LastCmd[3]}
             /\ written' = Append(written, <<"{", "success", LastCmd[3], "}">>)
        ELSE /\ swift' = swift
             /\ Len(written') = Len(written) + 1
             /\ written'[Len(written')][2] = "error"]_vars

C33_Witness ==
  /\ Len(answered) = 3
  /\ answered[2].cmd = <<"{", "register-hotkey", "1", "}">>
  /\ answered[2].reply[2] = "error"
  /\ answered[3].cmd = <<"{", "register-hotkey", "1", "K", "}">>
  /\ answered[3].reply = <<"{", "success", "1", "}">>
  /\ swift.hotkeys = {"1"}

\* C34: the two registries agree at quiescence: when the subprocess has
\* read every command written to it, the ids it holds are the ids that
\* registerHotkey returned and unregisterHotkey was not called with.
C34_RegistriesAgreeAtQuiescence ==
  (proc = "alive" /\ stdin = <<>>) => swift.hotkeys = ReturnedIds \ UnregisteredIds

C34_Witness ==
  /\ proc = "alive"
  /\ stdin = <<>>
  /\ ReturnedIds = {"1", "2"}
  /\ UnregisteredIds = {"1"}
  /\ swift.hotkeys = {"2"}
  /\ Len(answered) = 4

\* The subprocess keeps reading: while let line = readLine().
FairSwift == SpecSwift /\ WF_vars(SwiftHandleCommand)

\* the reply kinds a line may be answered with
ReplyKinds(line) ==
  LET p == JSONparse(line)
  IN IF p.ok /\ p.msg.type = "ping" THEN {"pong"}
     ELSE IF p.ok /\ p.msg.type \in CommandKinds THEN {"success", "error"}
     ELSE {"error"}

\* C35: the subprocess answers every input line with exactly one reply
\* line: the lines are taken in the order written, each step that takes one
\* prints one line, a pong for a ping, a success or an error for a command,
\* an error for anything else; and every line written is answered in the end.
C35_OneReplyPerLine ==
  /\ [][TakesLine =>
          /\ LastCmd = CompleteLines(sent)[Len(answered')]
          /\ written' = Append(written, LastReply)
          /\ stdoutPipe' = stdoutPipe \o LastReply \o <<NL>>
          /\ LastReply[2] \in ReplyKinds(LastCmd)]_vars
  /\ [][Len(written') # Len(written) => TakesLine]_vars
  /\ []<>(Len(answered) = Len(CompleteLines(sent)))

C35_Witness ==
  /\ Len(answered) = 4
  /\ answered[1].reply = <<"{", "pong", "}">>
  /\ answered[2].cmd = <<"{", "bogus", "}">>
  /\ answered[2].reply[2] = "error"
  /\ answered[3].cmd = <<"{", "ping">>
  /\ answered[3].reply[2] = "error"
  /\ answered[4].cmd = <<"{", "stop-monitoring", "}">>
  /\ answered[4].reply[2] = "success"
  /\ Len(written) = 4

\* the launch failed and the child's 'error' event has been dispatched
LaunchFailureReported == proc = "failed" /\ ~errorPending

\* C36: after a failed launch the bridge is not running: every register,
\* unregister, start-monitoring or stop-monitoring call made once the
\* launch error has been dispatched throws and writes nothing.
C36_LaunchFailureStopsBridge ==
  [][(LaunchFailureReported /\ lastCall'.n = lastCall.n + 1 /\ lastCall'.op # "ping")
       => lastCall'.threw /\ sent' = sent]_vars

\* The host and further clients of the bridge around a teardown: destroy()
\* is what the host's window-all-closed handler calls; the renderer of a
\* window created afterwards uses the same bridge object.
NextTeardown ==
  \/ lastCall.n < MaxCalls /\ \E key \in {"K"} : rendererRegisterHotkey(key)
  \/ RendererResume
  \/ \E o \in Observers : Subscribe(o, Channels)
  \/ SwiftHandleCommand
  \/ StdoutData(Len(stdoutPipe))
  \/ ProcessStderr
  \/ StderrData
  \/ ExitHandler
  \/ destroy

SpecTeardown == InitHost /\ [][NextTeardown]_vars

Destroyed == constructed /\ bridge = "null"

C38_DiagnosticNeverThrows == ~uncaught

\* the renderer resumes from the request at the head of the queue
Resolves == ipc # <<>> /\ ipc' = Tail(ipc) /\ ~ipc[1].threw
Rejects == ipc # <<>> /\ ipc' = Tail(ipc) /\ ipc[1].threw

\* C39: the renderer's hotkey map changes only on a resolved request: an
\* id enters it when the register-hotkey request that returned it resolves,
\* leaves it when the unregister-hotkey request for it resolves, and a
\* rejected request leaves the map as it was.
C39_MapChangesOnResolveOnly ==
  /\ [][registeredHotkeys' # registeredHotkeys =>
          /\ Resolves
          /\ \/ /\ ipc[1].op = "register-hotkey"
                /\ Digits[ipc[1].id] \in ReturnedIds
                /\ registeredHotkeys' = registeredHotkeys \cup {Digits[ipc[1].id]}
             \/ /\ ipc[1].op = "unregister-hotkey"
                /\ registeredHotkeys' = registeredHotkeys \ {Digits[ipc[1].id]}]_vars
  /\ [][Rejects => registeredHotkeys' = registeredHotkeys]_vars
  /\ [][(Resolves /\ ipc[1].op = "register-hotkey")
          => Digits[ipc[1].id] \in registeredHotkeys']_vars

C39_Witness ==
  /\ registeredHotkeys = {"1"}
  /\ ipc = <<>>
  /\ lastCall.n = 3
  /\ lastCall.threw
  /\ ReturnedIds = {"1"}
  /\ UnregisteredIds = {}
  /\ ~isRunning

====
